---- MODULE Spec2Model ----
EXTENDS Integers, Sequences, FiniteSets, TLC

(***************************************************************************)
(* Model of app.py (DGE Executive Summary Generator v8.0): the handler of  *)
(* the "Generate Summaries" button, from credential loading to the         *)
(* assembly of the output table, and the opening-sentence rule table that  *)
(* create_master_prompt renders into the prompt.                           *)
(*                                                                         *)
(* A text is a tuple of fragments (strings); a whitespace character is a   *)
(* fragment of its own.  A score is an integer number of thousandths       *)
(* (3510 is 3.51).  A cell of the table is a record [kind, text, num]:     *)
(* kind "str" (text), "num" (score) or "nan" (pandas' missing value).      *)
(***************************************************************************)

VARIABLES
    secrets,              \* keys present under st.secrets["azure_openai"]
    columns,              \* df.columns, in file order
    df,                   \* the rows of the uploaded table, each aligned with columns
    pc,                   \* position of the handler
    i,                    \* the loop's index label
    competency_columns,
    pronoun,
    scores_data,
    prompt,
    summary,              \* what generate_summary_azure returned
    generated_summaries,
    progress,             \* value shown by progress_bar, a fraction [num, den]
    requests,             \* rows whose chat completion request was issued, in issue order
    responses,            \* how each issued request ended, in order
    messages,             \* st.error / st.warning / st.success / st.write output
    output_df,
    rules                 \* opening-sentence rules of the prompt that match the highest score

vars == <<secrets, columns, df, pc, i, competency_columns, pronoun, scores_data, prompt,
          summary, generated_summaries, progress, requests, responses, messages,
          output_df, rules>>

\* Largest number of rows in the uploaded table.
MaxRows == 2

\* Largest number of competency scores in the data the rule table is read against.
MaxScores == 2

Range(s) == {s[k] : k \in DOMAIN s}

----------------------------------------------------------------------------
\* Cells and Python's conversions

NaN == [kind |-> "nan", text |-> <<>>, num |-> 0]

StrCell(t) == [kind |-> "str", text |-> t, num |-> 0]

NumCell(n) == [kind |-> "num", text |-> <<>>, num |-> n]

\* pd.notna
notna(cell) == cell.kind # "nan"

\* str() of a text cell or of the missing value
str(cell) == IF cell.kind = "nan" THEN <<"n", "a", "n">> ELSE cell.text

upper_char(c) ==
    CASE c = "m" -> "M"
      [] c = "f" -> "F"
      [] c = "x" -> "X"
      [] c = "n" -> "N"
      [] c = "a" -> "A"
      [] OTHER -> c

\* str.upper
upper(t) == [k \in DOMAIN t |-> upper_char(t[k])]

Whitespace == {" ", "\n", "\t"}

RECURSIVE lstrip(_)
lstrip(t) == IF t # <<>> /\ Head(t) \in Whitespace THEN lstrip(Tail(t)) ELSE t

RECURSIVE rstrip(_)
rstrip(t) ==
    IF t # <<>> /\ t[Len(t)] \in Whitespace THEN rstrip(SubSeq(t, 1, Len(t) - 1)) ELSE t

\* str.strip
strip(t) == rstrip(lstrip(t))

\* float() of a numeric cell
float(cell) == cell.num

\* row[name], for a name among the columns
RowGet(cols, row, name) == row[CHOOSE k \in 1..Len(cols) : cols[k] = name]

----------------------------------------------------------------------------
\* Program constants

all_known_competencies ==
    <<"Strategic Thinker", "Impactful Decision Maker", "Effective Collaborator",
      "Talent Nurturer", "Results Driver", "Customer Advocate",
      "Transformation Enabler", "Innovation Explorer">>

Placeholder == <<"Error: Failed to generate summary.">>

SummaryColumn == "Executive Summary"

NoSummary == [none |-> TRUE, text |-> <<>>]

NoOutput == [made |-> FALSE, columns |-> <<>>, rows |-> <<>>]

NoPrompt == [salutation_name |-> <<>>, pronoun |-> "", person_data |-> <<>>]

Msg(kind, about, row) == [kind |-> kind, about |-> about, row |-> row]

----------------------------------------------------------------------------
\* Inputs

SecretKeys == {"api_key", "endpoint", "deployment_name"}

\* Column layouts of the uploaded file: reordered competencies around a column that
\* is no competency; a file that already has a summary column; a file without the
\* gender column; a file without the salutation_name column.
Layouts ==
    { <<"email", "salutation_name", "gender", "level",
        "Results Driver", "Department", "Strategic Thinker", "Innovation Explorer">>,
      <<"salutation_name", "gender", "Strategic Thinker", "Executive Summary">>,
      <<"salutation_name", "level", "Strategic Thinker">>,
      <<"email", "gender", "Strategic Thinker">> }

ScoredColumns == {"Strategic Thinker", "Results Driver", "Innovation Explorer"}

GenderCells ==
    { StrCell(<<"M">>), StrCell(<<"m">>), StrCell(<<"F">>), StrCell(<<"f">>),
      StrCell(<<"X">>), NaN }

ScoreCells == { NaN, NumCell(3510) }

\* A row varies its gender cell with every score present, or its score cells with
\* gender "M".
RowKinds ==
    { [gender |-> g, scores |-> [c \in ScoredColumns |-> NumCell(3510)]] : g \in GenderCells }
    \cup
    { [gender |-> StrCell(<<"M">>), scores |-> s] : s \in [ScoredColumns -> ScoreCells] }

Names == <<"Irene", "Dr. Jonas", "Fatema">>

CellFor(col, r, kind) ==
    CASE col = "salutation_name" -> StrCell(<<Names[((r - 1) % 3) + 1]>>)
      [] col = "gender" -> kind.gender
      [] col \in ScoredColumns -> kind.scores[col]
      [] col = "Executive Summary" -> StrCell(<<"Earlier summary.">>)
      [] OTHER -> StrCell(<<col>>)

\* What the remote model may return as message content
Contents == { <<>>, <<" ", "\n">>, <<"\n", "Irene", " ", "evidenced", " ">> }

----------------------------------------------------------------------------
\* Helpers of the handler

\* Mutant: the deployment name is never looked up.
CredentialsFoundTwoKeys(s) ==
    "api_key" \in s /\ "endpoint" \in s

CredentialsFound(s) ==
    "api_key" \in s /\ "endpoint" \in s /\ "deployment_name" \in s

\* Mutant: the allowlist is walked instead of the file's columns.
CompetencyColumnsAllowlistOrder(cols) ==
    SelectSeq(all_known_competencies, LAMBDA col : col \in Range(cols))

CompetencyColumns(cols) ==
    SelectSeq(cols, LAMBDA col : col \in Range(all_known_competencies))

PronounFor(cell) ==
    LET gender_input == upper(str(cell))
    IN  IF gender_input = <<"M">> THEN "He"
        ELSE IF gender_input = <<"F">> THEN "She"
        ELSE "They"

RECURSIVE ScoresData(_, _, _)
ScoresData(cols, row, comps) ==
    IF comps = <<>> THEN <<>>
    ELSE LET competency == Head(comps)
             rest == ScoresData(cols, row, Tail(comps))
         IN  IF competency \in Range(cols) /\ notna(RowGet(cols, row, competency))
             THEN <<[name |-> competency, score |-> float(RowGet(cols, row, competency))]>>
                  \o rest
             ELSE rest

create_master_prompt(salutation_name, pron, person_data) ==
    [salutation_name |-> salutation_name, pronoun |-> pron, person_data |-> person_data]

\* Mutant: "if summary is not None:"
TruthyNotNone(s) == ~s.none

\* "if summary:"
Truthy(s) == ~s.none /\ s.text # <<>>

RecordedEntry(s) == IF Truthy(s) THEN s.text ELSE Placeholder

\* Mutant: the progress is computed from the index label alone.
ProgressValueBeforeRow(label, n) == [num |-> label, den |-> n]

ProgressValue(label, n) == [num |-> label + 1, den |-> n]

AssembleOutput(cols, rows, entries) ==
    IF SummaryColumn \in Range(cols)
    THEN [made |-> TRUE,
          columns |-> cols,
          rows |-> [r \in 1..Len(rows) |->
                      [k \in 1..Len(cols) |->
                          IF cols[k] = SummaryColumn THEN StrCell(entries[r])
                          ELSE rows[r][k]]]]
    ELSE [made |-> TRUE,
          columns |-> Append(cols, SummaryColumn),
          rows |-> [r \in 1..Len(rows) |-> Append(rows[r], StrCell(entries[r]))]]

----------------------------------------------------------------------------
\* The opening-sentence rule table of the prompt

RuleA(score) == score >= 3500

RuleB(score) == score >= 2500 /\ score <= 3490

RuleC(score) == score < 2500

MatchingRules(score) ==
    (IF RuleA(score) THEN {"A"} ELSE {}) \cup
    (IF RuleB(score) THEN {"B"} ELSE {}) \cup
    (IF RuleC(score) THEN {"C"} ELSE {})

HighestScore(data) ==
    CHOOSE m \in {data[k].score : k \in DOMAIN data} :
        \A k \in DOMAIN data : data[k].score <= m

----------------------------------------------------------------------------
\* The handler of the "Generate Summaries" button

Init ==
    /\ secrets \in SUBSET SecretKeys
    /\ columns \in Layouts
    /\ \E n \in 0..MaxRows : \E kinds \in [1..n -> RowKinds] :
          df = [r \in 1..n |-> [k \in 1..Len(columns) |-> CellFor(columns[k], r, kinds[r])]]
    /\ pc = "clicked"
    /\ i = 0
    /\ competency_columns = <<>>
    /\ pronoun = ""
    /\ scores_data = <<>>
    /\ prompt = NoPrompt
    /\ summary = NoSummary
    /\ generated_summaries = <<>>
    /\ progress = [num |-> 0, den |-> 1]
    /\ requests = <<>>
    /\ responses = <<>>
    /\ messages = <<>>
    /\ output_df = NoOutput
    /\ rules = {}

LoadCredentials ==
    /\ pc = "clicked"
    /\ IF CredentialsFound(secrets)
       THEN /\ pc' = "precheck"
            /\ messages' = messages
       ELSE /\ pc' = "stopped"
            /\ messages' = Append(messages, Msg("error", "credentials", 0))
    /\ UNCHANGED <<secrets, columns, df, i, competency_columns, pronoun, scores_data,
                   prompt, summary, generated_summaries, progress, requests, responses,
                   output_df, rules>>

CheckColumns ==
    /\ pc = "precheck"
    /\ competency_columns' = CompetencyColumns(columns)
    /\ IF "salutation_name" \notin Range(columns)
       THEN /\ pc' = "stopped"
            /\ messages' = Append(messages, Msg("error", "salutation_name", 0))
       ELSE /\ pc' = "loop"
            /\ messages' = messages
    /\ generated_summaries' = <<>>
    /\ progress' = [num |-> 0, den |-> 1]
    /\ i' = 0
    /\ UNCHANGED <<secrets, columns, df, pronoun, scores_data, prompt, summary,
                   requests, responses, output_df, rules>>

BuildPrompt ==
    /\ pc = "loop"
    /\ i < Len(df)
    /\ "gender" \in Range(columns)
    /\ LET row == df[i + 1]
           salutation_name == str(RowGet(columns, row, "salutation_name"))
           pron == PronounFor(RowGet(columns, row, "gender"))
           data == ScoresData(columns, row, competency_columns)
       IN  /\ pronoun' = pron
           /\ messages' = messages
                  \o (IF pron = "They" THEN <<Msg("warning", "gender", i)>> ELSE <<>>)
                  \o <<Msg("write", "processing", i)>>
           /\ scores_data' = data
           /\ prompt' = create_master_prompt(salutation_name, pron, data)
    /\ pc' = "request"
    /\ UNCHANGED <<secrets, columns, df, i, competency_columns, summary,
                   generated_summaries, progress, requests, responses, output_df, rules>>

GenderKeyError ==
    /\ pc = "loop"
    /\ i < Len(df)
    /\ "gender" \notin Range(columns)
    /\ pc' = "failed"
    /\ messages' = Append(messages, Msg("error", "exception", i))
    /\ UNCHANGED <<secrets, columns, df, i, competency_columns, pronoun, scores_data,
                   prompt, summary, generated_summaries, progress, requests, responses,
                   output_df, rules>>

SendRequest ==
    /\ pc = "request"
    /\ requests' = Append(requests, i)
    /\ pc' = "waiting"
    /\ UNCHANGED <<secrets, columns, df, i, competency_columns, pronoun, scores_data,
                   prompt, summary, generated_summaries, progress, responses, messages,
                   output_df, rules>>

ReceiveResponse ==
    /\ pc = "waiting"
    /\ \E content \in Contents :
          /\ summary' = [none |-> FALSE, text |-> strip(content)]
          /\ responses' = Append(responses, [raised |-> FALSE, content |-> content])
    /\ pc' = "handle"
    /\ UNCHANGED <<secrets, columns, df, i, competency_columns, pronoun, scores_data,
                   prompt, generated_summaries, progress, requests, messages, output_df,
                   rules>>

\* Mutant: a failed request is issued again.
RequestRaisesRetry ==
    /\ pc = "waiting"
    /\ messages' = Append(messages, Msg("error", "azure", i))
    /\ pc' = "request"
    /\ UNCHANGED <<secrets, columns, df, i, competency_columns, pronoun, scores_data,
                   prompt, summary, generated_summaries, progress, requests, responses,
                   output_df, rules>>

RequestRaises ==
    /\ pc = "waiting"
    /\ summary' = NoSummary
    /\ responses' = Append(responses, [raised |-> TRUE, content |-> <<>>])
    /\ messages' = Append(messages, Msg("error", "azure", i))
    /\ pc' = "handle"
    /\ UNCHANGED <<secrets, columns, df, i, competency_columns, pronoun, scores_data,
                   prompt, generated_summaries, progress, requests, output_df, rules>>

\* Mutant: a failed row ends the batch.
HandleSummaryAbortOnFailure ==
    /\ pc = "handle"
    /\ generated_summaries' = Append(generated_summaries, RecordedEntry(summary))
    /\ messages' = Append(messages,
                          IF Truthy(summary) THEN Msg("success", "summary", i)
                          ELSE Msg("error", "summary", i))
    /\ progress' = ProgressValue(i, Len(df))
    /\ i' = i + 1
    /\ pc' = IF Truthy(summary) THEN "loop" ELSE "failed"
    /\ UNCHANGED <<secrets, columns, df, competency_columns, pronoun, scores_data,
                   prompt, summary, requests, responses, output_df, rules>>

HandleSummary ==
    /\ pc = "handle"
    /\ generated_summaries' = Append(generated_summaries, RecordedEntry(summary))
    /\ messages' = Append(messages,
                          IF Truthy(summary) THEN Msg("success", "summary", i)
                          ELSE Msg("error", "summary", i))
    /\ progress' = ProgressValue(i, Len(df))
    /\ i' = i + 1
    /\ pc' = "loop"
    /\ UNCHANGED <<secrets, columns, df, competency_columns, pronoun, scores_data,
                   prompt, summary, requests, responses, output_df, rules>>

ShowResults ==
    /\ pc = "loop"
    /\ i >= Len(df)
    /\ output_df' = IF generated_summaries # <<>>
                    THEN AssembleOutput(columns, df, generated_summaries)
                    ELSE output_df
    /\ pc' = "done"
    /\ UNCHANGED <<secrets, columns, df, i, competency_columns, pronoun, scores_data,
                   prompt, summary, generated_summaries, progress, requests, responses,
                   messages, rules>>

Next ==
    \/ LoadCredentials
    \/ CheckColumns
    \/ BuildPrompt
    \/ GenderKeyError
    \/ SendRequest
    \/ ReceiveResponse
    \/ RequestRaises
    \/ HandleSummary
    \/ ShowResults

Spec == Init /\ [][Next]_vars

----------------------------------------------------------------------------
\* Reading the rule table against a person's data

\* Scores around the boundaries of the three rules
RuleScores == {0, 2470, 2490, 2495, 2500, 2510, 3000, 3490, 3495, 3499, 3500, 3510, 5000}

InitRules ==
    /\ secrets = SecretKeys
    /\ columns = <<>>
    /\ df = <<>>
    /\ pc = "prompted"
    /\ i = 0
    /\ competency_columns = <<>>
    /\ pronoun = ""
    /\ \E n \in 1..MaxScores : \E sc \in [1..n -> RuleScores] :
          scores_data = [k \in 1..n |->
                            [name |-> all_known_competencies[((k - 1) % 8) + 1],
                             score |-> sc[k]]]
    /\ prompt = NoPrompt
    /\ summary = NoSummary
    /\ generated_summaries = <<>>
    /\ progress = [num |-> 0, den |-> 1]
    /\ requests = <<>>
    /\ responses = <<>>
    /\ messages = <<>>
    /\ output_df = NoOutput
    /\ rules = {}

ReadOpeningProtocol ==
    /\ pc = "prompted"
    /\ rules' = MatchingRules(HighestScore(scores_data))
    /\ pc' = "opened"
    /\ UNCHANGED <<secrets, columns, df, i, competency_columns, pronoun, scores_data,
                   prompt, summary, generated_summaries, progress, requests, responses,
                   messages, output_df>>

NextRules == ReadOpeningProtocol

SpecRules == InitRules /\ [][NextRules]_vars

----------------------------------------------------------------------------
\* Properties

\* The handler is past its loop: it ran to the end or an exception left it.
LoopEnded == pc \in {"done", "failed"}

\* A row's prompt has been built and the row is not yet recorded.
RowInHand == pc \in {"request", "waiting", "handle"}

HasColumn(name) == \E k \in 1..Len(columns) : columns[k] = name

Position(name) == CHOOSE k \in 1..Len(columns) : columns[k] = name

NonBlank(content) == \E k \in 1..Len(content) : content[k] \notin Whitespace

\* The content between its first and its last fragment that is no whitespace.
Core(content) ==
    LET keep == {k \in 1..Len(content) : content[k] \notin Whitespace}
        first == CHOOSE k \in keep : \A j \in keep : k <= j
        last == CHOOSE k \in keep : \A j \in keep : j <= k
    IN  [k \in 1..(last - first + 1) |-> content[first + k - 1]]

\* The entry a response calls for: the model's text, or the placeholder.
EntryFor(response) ==
    IF ~response.raised /\ NonBlank(response.content)
    THEN Core(response.content)
    ELSE <<"Error: Failed to generate summary.">>

Said(kind, about, row) ==
    \E k \in 1..Len(messages) : messages[k] = [kind |-> kind, about |-> about, row |-> row]

\* C1: a batch whose loop has started ends with exactly one entry per input row,
\* the k-th entry being the one produced from the k-th row's request.
C1_OneEntryPerRowInOrder ==
    LoopEnded =>
        /\ Len(generated_summaries) = Len(df)
        /\ Len(responses) = Len(df)
        /\ Len(requests) = Len(df)
        /\ \A k \in 1..Len(df) :
              /\ requests[k] = k - 1
              /\ generated_summaries[k] = EntryFor(responses[k])

\* C2: when the request of row k fails, the entry of row k is the placeholder, the
\* batch is not aborted, and once the batch is over every later row has had its
\* request issued and its entry recorded.
C2_FailedRowDoesNotStopTheBatch ==
    \A k \in 1..Len(responses) :
        responses[k].raised =>
            /\ k <= Len(generated_summaries) =>
                  generated_summaries[k] = <<"Error: Failed to generate summary.">>
            /\ pc \notin {"failed", "stopped"}
            /\ pc # "done" => ENABLED Next
            /\ pc = "done" =>
                  \A j \in (k + 1)..Len(df) :
                      /\ j <= Len(requests) /\ requests[j] = j - 1
                      /\ j <= Len(generated_summaries)

C2_Witness ==
    /\ pc = "done"
    /\ Len(df) = 2
    /\ Len(responses) = 2
    /\ responses[1].raised
    /\ ~responses[2].raised
    /\ Len(generated_summaries) = 2
    /\ generated_summaries[1] = <<"Error: Failed to generate summary.">>
    /\ generated_summaries[2] = <<"Irene", " ", "evidenced">>

\* C3: without the salutation_name column, or without one of the three
\* credentials, the run stops with an error shown before any row is processed: no
\* request is issued, no entry is recorded and no output table is made.
C3_HaltsBeforeAnyRow ==
    (~HasColumn("salutation_name") \/ ~({"api_key", "endpoint", "deployment_name"} \subseteq secrets))
        => /\ requests = <<>>
           /\ responses = <<>>
           /\ generated_summaries = <<>>
           /\ ~output_df.made
           /\ pc \in {"clicked", "precheck", "stopped"}
           /\ pc = "stopped" =>
                 \/ Said("error", "credentials", 0)
                 \/ Said("error", "salutation_name", 0)

C3_Witness ==
    /\ pc = "stopped"
    /\ secrets = {"api_key", "endpoint", "deployment_name"}
    /\ ~HasColumn("salutation_name")
    /\ Len(df) = 2
    /\ requests = <<>>
    /\ Said("error", "salutation_name", 0)

\* The pronoun the gender field of a row calls for; an absent field calls for They.
ExpectedPronoun(row) ==
    IF ~HasColumn("gender") THEN "They"
    ELSE LET g == row[Position("gender")]
         IN  IF g.kind = "str" /\ g.text \in {<<"M">>, <<"m">>} THEN "He"
             ELSE IF g.kind = "str" /\ g.text \in {<<"F">>, <<"f">>} THEN "She"
             ELSE "They"

\* C4: every row gets the pronoun its gender field calls for (He for M or m, She
\* for F or f, They otherwise, an absent field included); for They a warning is
\* shown, and the row and the batch go on.
C4_PronounForEveryRow ==
    /\ pc # "failed"
    /\ RowInHand =>
          /\ pronoun = ExpectedPronoun(df[i + 1])
          /\ prompt.pronoun = pronoun
          /\ pronoun = "They" => Said("warning", "gender", i)

\* C5: the competency list of a row's prompt holds exactly the columns that are in
\* the allowlist of 8 names and whose cell in the row is present, in the order of
\* the file's columns, each with the cell's score.
C5_CompetenciesAreAllowedPresentInColumnOrder ==
    RowInHand =>
        LET data == prompt.person_data
            row == df[i + 1]
        IN  /\ Cardinality(Range(all_known_competencies)) = 8
            /\ {data[k].name : k \in 1..Len(data)} =
                  {c \in Range(columns) :
                      c \in Range(all_known_competencies) /\ row[Position(c)].kind # "nan"}
            /\ \A a, b \in 1..Len(data) :
                  a < b => Position(data[a].name) < Position(data[b].name)
            /\ \A k \in 1..Len(data) : data[k].score = row[Position(data[k].name)].num

C5_Witness ==
    /\ pc = "request"
    /\ HasColumn("Department")
    /\ Len(competency_columns) = 3
    /\ Len(prompt.person_data) = 2
    /\ prompt.person_data[1].name = "Results Driver"
    /\ prompt.person_data[2].name = "Strategic Thinker"

\* C6: the output table of a completed batch is the input table, every column and
\* cell as it was and in the same row order, followed by one more column,
\* "Executive Summary", that holds the entries.
C6_OutputIsInputPlusSummaryColumn ==
    output_df.made =>
        /\ output_df.columns = columns \o <<"Executive Summary">>
        /\ Len(output_df.rows) = Len(df)
        /\ \A r \in 1..Len(df) :
              /\ Len(output_df.rows[r]) = Len(columns) + 1
              /\ \A k \in 1..Len(columns) : output_df.rows[r][k] = df[r][k]
              /\ output_df.rows[r][Len(columns) + 1].text = generated_summaries[r]

\* C7: for every highest score exactly one rule of the prompt applies: Rule A
\* exactly from 3.5 up, Rule B exactly from 2.5 up to but not including 3.5,
\* Rule C exactly below 2.5.
C7_ExactlyOneRuleForEveryScore ==
    pc = "opened" =>
        LET top == HighestScore(scores_data)
        IN  /\ Cardinality(rules) = 1
            /\ "A" \in rules <=> top >= 3500
            /\ "B" \in rules <=> (top >= 2500 /\ top < 3500)
            /\ "C" \in rules <=> top < 2500

\* C8: requests are issued one per row in row order and never repeated, a request
\* is over before the next one is issued, and the number of requests is the number
\* of rows processed.
C8_OneRequestPerRowInOrder ==
    /\ \A k \in 1..Len(requests) : requests[k] = k - 1
    /\ Len(responses) <= Len(requests)
    /\ Len(requests) <= Len(responses) + 1
    /\ Len(requests) = Len(responses) + 1 <=> pc = "waiting"
    /\ Len(generated_summaries) <= Len(responses)
    /\ pc \in {"loop", "done", "failed", "stopped"} =>
          /\ Len(requests) = Len(generated_summaries)
          /\ Len(responses) = Len(generated_summaries)
    /\ pc = "done" => Len(requests) = Len(df)

C8_Witness ==
    /\ pc = "done"
    /\ Len(df) = 2
    /\ requests = <<0, 1>>
    /\ Len(responses) = 2
    /\ responses[1].raised

\* a/b < c/d for fractions with positive denominators
Less(p, q) == p.num * q.den < q.num * p.den

\* C9: the progress shown is rows completed over total rows; it changes once per
\* row, when the row is recorded, and then strictly increases; it never exceeds 1
\* and is 1 exactly when the last row has been processed.
C9_ProgressIsRowsCompletedOverTotal ==
    /\ [](/\ progress.den > 0
          /\ progress.num <= progress.den
          /\ progress.num * Len(df) = Len(generated_summaries) * progress.den
          /\ progress.num = progress.den <=>
                (Len(df) > 0 /\ Len(generated_summaries) = Len(df)))
    /\ [][/\ Len(generated_summaries') = Len(generated_summaries) + 1
             => Less(progress, progress')
          /\ generated_summaries' = generated_summaries => progress' = progress]_vars

C9_Witness ==
    /\ pc = "done"
    /\ Len(df) = 2
    /\ Len(generated_summaries) = 2
    /\ progress = [num |-> 2, den |-> 2]

\* C10: the entry of a row is the model's text exactly when the request returned
\* with text that is not empty once stripped, and the row is then reported a
\* success; a request that returned empty or blank text is recorded as the
\* placeholder and reported as a failed row, like one that raised.
C10_BlankResponseIsAFailure ==
    \A k \in 1..Len(generated_summaries) :
        LET response == responses[k]
        IN  IF ~response.raised /\ NonBlank(response.content)
            THEN /\ generated_summaries[k] = Core(response.content)
                 /\ Said("success", "summary", k - 1)
                 /\ ~Said("error", "summary", k - 1)
            ELSE /\ generated_summaries[k] = <<"Error: Failed to generate summary.">>
                 /\ Said("error", "summary", k - 1)
                 /\ ~Said("success", "summary", k - 1)

C10_Witness ==
    /\ pc = "done"
    /\ Len(df) = 2
    /\ Len(responses) = 2
    /\ ~responses[1].raised
    /\ responses[1].content = <<" ", "\n">>
    /\ generated_summaries[1] = <<"Error: Failed to generate summary.">>
    /\ responses[2].raised
    /\ generated_summaries[2] = <<"Error: Failed to generate summary.">>

====
